---- MODULE Spec2Model ----
(***************************************************************************)
(* Model of the ProtoGalaxy perturbator construction and of the Lookup     *)
(* relation's accumulate step of barretenberg.                             *)
(*                                                                         *)
(* C++ vectors are modelled as TLA+ sequences; the C++ index i of a vector *)
(* v is read with At(v, i) and written with Put(v, i, x), so the indices   *)
(* in the model are the indices of the source.                             *)
(***************************************************************************)
EXTENDS Integers, Sequences, FiniteSets, TLC

VARIABLES
    \* ---- compute_round_challenge_pows(log_instance_size, round_challenge)
    pows_pc,            \* position in compute_round_challenge_pows
    log_instance_size,  \* its first argument
    round_challenge,    \* its second argument
    pows,               \* its local vector pows
    pows_i,             \* its loop counter i
    \* ---- compute_perturbator(accumulator, deltas, alpha)
    pc,                 \* position in compute_perturbator and its callees
    ndebug,             \* whether the build defines NDEBUG (assert is then a no-op):
                        \* "unknown" until an assert fails, then "yes" or "no"
    accumulator,        \* the accumulator instance (instances[0])
    deltas,             \* the caller's deltas
    full_honk_evaluations, \* local vector of compute_perturbator
    level,              \* argument level of the running compute_level call
    level_coeffs,       \* prev_level_coeffs of the running compute_level call
    perturbator,        \* the vector compute_perturbator returned
    \* ---- LookupRelationImpl::accumulate
    relation_parameters, \* RelationParameters<FF>
    new_term,           \* the extended edges: per column, its value at each local index
    scaling_factor,     \* the scaling factor of the calls
    univariate_accumulators, \* the prover's accumulators: one Univariate per subrelation
    univariate_calls,   \* number of accumulate calls on univariate_accumulators
    value_accumulators, \* the verifier's accumulators: one FF per subrelation
    value_calls,        \* number of accumulate calls on value_accumulators
    value_row,          \* local index of the row of the last call on value_accumulators
    value_lhs,          \* lhs (the numerator) in the last call on value_accumulators
    value_rhs           \* rhs (the denominator) in the last call on value_accumulators

pows_vars == <<pows_pc, log_instance_size, round_challenge, pows, pows_i>>
perturbator_vars ==
    <<pc, ndebug, accumulator, deltas, full_honk_evaluations, level, level_coeffs, perturbator>>
lookup_vars ==
    <<relation_parameters, new_term, scaling_factor, univariate_accumulators,
      univariate_calls, value_accumulators, value_calls, value_row, value_lhs, value_rhs>>

(* convert_to_wnaf of the ECCVM set relation *)
VARIABLES
    wnaf_pc,            \* position in convert_to_wnaf
    wnaf_s0,            \* argument s0
    wnaf_s1,            \* argument s1
    wnaf_naf            \* the value returned

wnaf_vars == <<wnaf_pc, wnaf_s0, wnaf_s1, wnaf_naf>>

(* the fold of ProtoGalaxyProver_, with the row loop and the pair loops of *)
(* compute_perturbator taken one iteration at a time                       *)
VARIABLES
    fold_state,             \* state of the folder
    fold_prepared,          \* prepare_for_folding has run
    fold_history,           \* the states of the folder entered so far
    fold_alpha,             \* alpha of compute_perturbator
    fold_betas,             \* betas of compute_perturbator
    fold_rows_done,         \* the rows whose iteration of the row loop has run
    fold_nodes_done,        \* the nodes whose iteration of the pair loop has run
    fold_prev_level_coeffs  \* prev_level_coeffs of the current call of compute_level

fold_vars ==
    <<fold_state, fold_prepared, fold_history, fold_alpha, fold_betas, fold_rows_done,
      fold_nodes_done, fold_prev_level_coeffs>>

vars == <<pows_vars, perturbator_vars, lookup_vars, wnaf_vars, fold_vars>>

----------------------------------------------------------------------------
(* Bounds of the model.                                                    *)

\* largest log2 of an instance size
MaxLogSize == 3
\* largest log_instance_size handed to compute_round_challenge_pows
MaxPowsLogSize == 4
\* challenges (betas, deltas, relation parameters) are drawn from 0..MaxChallenge
MaxChallenge == 2
\* non-zero row values are drawn from 1..MaxValue
MaxValue == 2
\* largest number of accumulate calls
MaxCalls == 2
\* number of dense extended edges among the inputs of accumulate
MaxSeed == 2
\* largest number of rows of a trace
MaxRows == 3
\* largest log2 of the instance size of a fold
MaxFoldLogSize == 2

----------------------------------------------------------------------------
(* The field FF.  The model uses a small prime field; the arithmetic of    *)
(* the code is that of FF whatever its modulus.                            *)

FieldModulus == 251
FF == 0 .. (FieldModulus - 1)

Add(a, b) == (a + b) % FieldModulus
Sub(a, b) == (a + FieldModulus - b) % FieldModulus
Mul(a, b) == (a * b) % FieldModulus
Sqr(a) == Mul(a, a)

\* v[i] of a std::vector, and the vector after v[i] = x
At(v, i) == v[i + 1]
Put(v, i, x) == [v EXCEPT ![i + 1] = x]
\* std::vector<FF>(n, 0)
Zeros(n) == [k \in 1 .. n |-> 0]
InBounds(v, i) == i >= 0 /\ i < Len(v)

----------------------------------------------------------------------------
(* compute_round_challenge_pows                                            *)

\* the state of the variables while no call of the function is modelled
PowsIdle ==
    /\ pows_pc = "idle" /\ log_instance_size = 0 /\ round_challenge = 0
    /\ pows = <<>> /\ pows_i = 0

PowsInit ==
    /\ pows_pc = "call"
    /\ log_instance_size \in 0 .. MaxPowsLogSize
    /\ round_challenge \in FF
    /\ pows = <<>>
    /\ pows_i = 0

\* std::vector<FF> pows(log_instance_size);
PowsAllocate ==
    /\ pows_pc = "call"
    /\ pows' = Zeros(log_instance_size)
    /\ pows_pc' = "first"
    /\ UNCHANGED <<log_instance_size, round_challenge, pows_i>>
    /\ UNCHANGED <<perturbator_vars, lookup_vars, wnaf_vars, fold_vars>>

\* pows[0] = round_challenge;
PowsWriteFirst ==
    /\ pows_pc = "first"
    /\ InBounds(pows, 0)
    /\ pows' = Put(pows, 0, round_challenge)
    /\ pows_i' = 1
    /\ pows_pc' = "loop"
    /\ UNCHANGED <<log_instance_size, round_challenge>>
    /\ UNCHANGED <<perturbator_vars, lookup_vars, wnaf_vars, fold_vars>>

\* pows[0] = round_challenge on an empty vector writes outside the vector:
\* undefined behaviour, the call crashes or goes on with the empty vector
PowsWriteFirstOutOfBounds ==
    /\ pows_pc = "first"
    /\ ~InBounds(pows, 0)
    /\ pows_pc' \in {"crashed", "loop"}
    /\ pows_i' = 1
    /\ UNCHANGED <<log_instance_size, round_challenge, pows>>
    /\ UNCHANGED <<perturbator_vars, lookup_vars, wnaf_vars, fold_vars>>

\* repeated multiplication by the challenge instead of squaring
MultiplyPrevious(pws, i) == Mul(At(pws, i - 1), At(pws, 0))

\* the square of the first element instead of the previous one
SquareFirst(pws, i) == Sqr(At(pws, 0))

\* pows[i - 1].sqr()
SquarePrevious(pws, i) == Sqr(At(pws, i - 1))

\* for (size_t i = 1; i < log_instance_size; i++) pows[i] = pows[i - 1].sqr();
PowsSquare ==
    /\ pows_pc = "loop"
    /\ pows_i < log_instance_size
    /\ pows' = Put(pows, pows_i, SquarePrevious(pows, pows_i))
    /\ pows_i' = pows_i + 1
    /\ UNCHANGED <<pows_pc, log_instance_size, round_challenge>>
    /\ UNCHANGED <<perturbator_vars, lookup_vars, wnaf_vars, fold_vars>>

\* return pows;
PowsReturn ==
    /\ pows_pc = "loop"
    /\ ~(pows_i < log_instance_size)
    /\ pows_pc' = "returned"
    /\ UNCHANGED <<log_instance_size, round_challenge, pows, pows_i>>
    /\ UNCHANGED <<perturbator_vars, lookup_vars, wnaf_vars, fold_vars>>

compute_round_challenge_pows ==
    \/ PowsAllocate
    \/ PowsWriteFirst
    \/ PowsWriteFirstOutOfBounds
    \/ PowsSquare
    \/ PowsReturn

----------------------------------------------------------------------------
(* compute_level and construct_perturbator_coeffs                          *)

\* v[i] when i is inside v; a read outside the vector is undefined behaviour
\* and yields g
Read(v, i, g) == IF InBounds(v, i) THEN At(v, i) ELSE g

\* beta and delta exchanged in the two updates of the loop over d
CombinePairSwapped(left, right, beta, delta, degree) ==
    LET copied == [k \in 1 .. (degree + 1) |-> IF k <= Len(left) THEN left[k] ELSE 0]
        RECURSIVE Loop(_, _)
        Loop(parent, d) ==
            IF d >= degree THEN parent
            ELSE LET p1 == Put(parent, d, Add(At(parent, d), Mul(At(right, d), delta)))
                     p2 == Put(p1, d + 1, Add(At(p1, d + 1), Mul(At(right, d), beta)))
                 IN  Loop(p2, d + 1)
    IN  Loop(copied, 0)

\* the parent vector filled with 1 instead of 0 before the copy
CombinePairFillOne(left, right, beta, delta, degree) ==
    LET copied == [k \in 1 .. (degree + 1) |-> IF k <= Len(left) THEN left[k] ELSE 1]
        RECURSIVE Loop(_, _)
        Loop(parent, d) ==
            IF d >= degree THEN parent
            ELSE LET p1 == Put(parent, d, Add(At(parent, d), Mul(At(right, d), beta)))
                     p2 == Put(p1, d + 1, Add(At(p1, d + 1), Mul(At(right, d), delta)))
                 IN  Loop(p2, d + 1)
    IN  Loop(copied, 0)

\* One iteration of the loop over node in compute_level: the parent of the
\* pair (left, right) = (prev_level_coeffs[node], prev_level_coeffs[node + 1]).
\*   std::vector<FF>(degree + 1, 0); std::copy(left, parent);
\*   for d < degree: parent[d] += right[d] * beta; parent[d + 1] += right[d] * delta;
CombinePair(left, right, beta, delta, degree) ==
    LET copied == [k \in 1 .. (degree + 1) |-> IF k <= Len(left) THEN left[k] ELSE 0]
        RECURSIVE Loop(_, _)
        Loop(parent, d) ==
            IF d >= degree THEN parent
            ELSE LET p1 == Put(parent, d, Add(At(parent, d), Mul(At(right, d), beta)))
                     p2 == Put(p1, d + 1, Add(At(p1, d + 1), Mul(At(right, d), delta)))
                 IN  Loop(p2, d + 1)
    IN  Loop(copied, 0)

\* The body of compute_level below the root test: the level_coeffs built from
\* prev_level_coeffs.  Only the prev_level_width / 2 parents that exist are
\* built; g stands for betas[level] or deltas[level] read outside the vector.
ComputeLevelCoeffs(lvl, betas, dlts, prev_level_coeffs, g) ==
    LET degree == lvl + 1
        prev_level_width == Len(prev_level_coeffs)
    IN  [parent \in 1 .. (prev_level_width \div 2) |->
            CombinePair(prev_level_coeffs[2 * parent - 1], prev_level_coeffs[2 * parent],
                        Read(betas, lvl, g), Read(dlts, lvl, g), degree)]

\* compute_level indexes a vector outside its bounds at this level: an odd
\* prev_level_width makes the last node write level_coeffs[prev_level_width / 2] and
\* read prev_level_coeffs[prev_level_width]; betas[level] and deltas[level] are read
\* whenever the loop runs
LevelOutOfBounds(lvl, betas, dlts, prev_level_coeffs) ==
    LET prev_level_width == Len(prev_level_coeffs)
    IN  \/ prev_level_width % 2 = 1
        \/ prev_level_width > 0 /\ (~InBounds(betas, lvl) \/ ~InBounds(dlts, lvl))

\* the product with betas[0] left out of coefficient 0
FirstLevelCoeffsNoBeta(betas, dlts, evals, g) ==
    LET width == Len(evals)
    IN  [idx \in 1 .. (width \div 2) |->
            << Add(evals[2 * idx - 1], evals[2 * idx]),
               Mul(evals[2 * idx], Read(dlts, 0, g)) >>]

\* The loop of construct_perturbator_coeffs: first_level_coeffs.
\*   first_level_coeffs[idx][0] = evals[node] + evals[node + 1] * betas[0];
\*   first_level_coeffs[idx][1] = evals[node + 1] * deltas[0];
FirstLevelCoeffs(betas, dlts, evals, g) ==
    LET width == Len(evals)
    IN  [idx \in 1 .. (width \div 2) |->
            << Add(evals[2 * idx - 1], Mul(evals[2 * idx], Read(betas, 0, g))),
               Mul(evals[2 * idx], Read(dlts, 0, g)) >>]

\* construct_perturbator_coeffs indexes a vector outside its bounds: an odd
\* width makes the last node write first_level_coeffs[width / 2] and read
\* full_honk_evaluations[width]; betas[0] and deltas[0] are read whenever the loop runs
FirstLevelOutOfBounds(betas, dlts, evals) ==
    LET width == Len(evals)
    IN  \/ width % 2 = 1
        \/ width > 0 /\ (~InBounds(betas, 0) \/ ~InBounds(dlts, 0))

\* the root test one level early
AtRootEarly(lvl, betas) == lvl + 1 = Len(betas)

\* if (level == betas.size()): the root of the tree is reached
AtRoot(lvl, betas) == lvl = Len(betas)

----------------------------------------------------------------------------
(* compute_perturbator                                                     *)

\* numeric::get_msb: the index of the most significant set bit of n >= 1
RECURSIVE get_msb(_)
get_msb(n) == IF n <= 1 THEN 0 ELSE 1 + get_msb(n \div 2)

RECURSIVE Pow2(_)
Pow2(k) == IF k = 0 THEN 1 ELSE 2 * Pow2(k - 1)

\* auto instance_size = accumulator->prover_polynomials[0].size();
instance_size == Len(accumulator.full_relation_values)

\* the values a read outside a vector can yield
Garbage == {0, 1}

\* the row values of an accumulator of n rows: no row, one row, or every row
\* has a non-zero full relation value
RowValues(n) ==
    {Zeros(n)}
    \cup {[k \in 1 .. n |-> IF k = r THEN v ELSE 0] : r \in 1 .. n, v \in 1 .. MaxValue}
    \cup {[k \in 1 .. n |-> (c * k) % FieldModulus] : c \in 1 .. MaxValue}

\* the challenges: every vector of non-zero challenges, and the all-zero betas
Betas(len) == [1 .. len -> 1 .. MaxChallenge] \cup {Zeros(len)}
Deltas(len) == [1 .. len -> 1 .. MaxChallenge]

\* the lengths of betas and deltas: both log2 of the size, or one of them one
\* shorter or one longer
Lengths(t) ==
    {<<t, t>>, <<t + 1, t>>, <<t, t + 1>>}
    \cup (IF t > 0 THEN {<<t - 1, t>>, <<t, t - 1>>} ELSE {})

PerturbatorIdle ==
    /\ pc = "idle" /\ ndebug = "unknown"
    /\ accumulator = [full_relation_values |-> <<>>, gate_separation_challenges |-> <<>>]
    /\ deltas = <<>> /\ full_honk_evaluations = <<>>
    /\ level = 0 /\ level_coeffs = <<>> /\ perturbator = <<>>

PerturbatorInit ==
    /\ pc = "call"
    /\ ndebug = "unknown"
    /\ \E n \in 1 .. Pow2(MaxLogSize) : \E lens \in Lengths(get_msb(n)) :
          /\ accumulator \in [full_relation_values : RowValues(n),
                               gate_separation_challenges : Betas(lens[1])]
          /\ deltas \in Deltas(lens[2])
    /\ full_honk_evaluations = <<>>
    /\ level = 0
    /\ level_coeffs = <<>>
    /\ perturbator = <<>>

\* assert(cond): passes when cond holds; when it does not, the call aborts in
\* a build with assertions and goes on in a build that defines NDEBUG
AssertPasses(cond) ==
    \/ cond /\ UNCHANGED ndebug
    \/ ~cond /\ ndebug \in {"unknown", "yes"} /\ ndebug' = "yes"
AssertAborts(cond) ==
    ~cond /\ ndebug \in {"unknown", "no"} /\ ndebug' = "no"

\* lines 109-111: instance_size, log_instance_size, assert(deltas.size() == log_instance_size)
CheckDeltas ==
    /\ pc = "call"
    /\ \/ AssertPasses(Len(deltas) = get_msb(instance_size)) /\ pc' = "rows"
       \/ AssertAborts(Len(deltas) = get_msb(instance_size)) /\ pc' = "aborted"
    /\ UNCHANGED <<accumulator, deltas, full_honk_evaluations, level, level_coeffs, perturbator>>
    /\ UNCHANGED <<pows_vars, lookup_vars, wnaf_vars, fold_vars>>

\* lines 113-121: the loop over the rows, full_honk_evaluations[idx] = full_honk_at_row.
\* compute_full_honk_relation_row_value is only declared in the header: the
\* value it takes on row idx of the accumulator is the input
\* accumulator.full_relation_values[idx], one per row of prover_polynomials[0].
EvaluateRows ==
    /\ pc = "rows"
    /\ full_honk_evaluations' =
          [idx \in 1 .. instance_size |-> accumulator.full_relation_values[idx]]
    /\ pc' = "betas"
    /\ UNCHANGED <<ndebug, accumulator, deltas, level, level_coeffs, perturbator>>
    /\ UNCHANGED <<pows_vars, lookup_vars, wnaf_vars, fold_vars>>

\* lines 122-123: betas = gate_separation_challenges, assert(betas.size() == log_instance_size)
CheckBetas ==
    /\ pc = "betas"
    /\ LET betas == accumulator.gate_separation_challenges
       IN  \/ AssertPasses(Len(betas) = get_msb(instance_size)) /\ pc' = "construct"
           \/ AssertAborts(Len(betas) = get_msb(instance_size)) /\ pc' = "aborted"
    /\ UNCHANGED <<accumulator, deltas, full_honk_evaluations, level, level_coeffs, perturbator>>
    /\ UNCHANGED <<pows_vars, lookup_vars, wnaf_vars, fold_vars>>

\* lines 96-103: construct_perturbator_coeffs up to its call compute_level(1, ...)
ConstructPerturbatorCoeffs ==
    /\ pc = "construct"
    /\ LET betas == accumulator.gate_separation_challenges
       IN  /\ ~FirstLevelOutOfBounds(betas, deltas, full_honk_evaluations)
           /\ level_coeffs' = FirstLevelCoeffs(betas, deltas, full_honk_evaluations, 0)
    /\ level' = 1
    /\ pc' = "level"
    /\ UNCHANGED <<ndebug, accumulator, deltas, full_honk_evaluations, perturbator>>
    /\ UNCHANGED <<pows_vars, lookup_vars, wnaf_vars, fold_vars>>

\* the same lines when an index is outside its vector: undefined behaviour, the
\* call crashes, or goes on with the nodes that exist and some value for the
\* elements read outside
ConstructOutOfBounds ==
    /\ pc = "construct"
    /\ LET betas == accumulator.gate_separation_challenges
       IN  /\ FirstLevelOutOfBounds(betas, deltas, full_honk_evaluations)
           /\ \/ /\ pc' = "crashed"
                 /\ UNCHANGED <<level, level_coeffs>>
              \/ /\ pc' = "level"
                 /\ level' = 1
                 /\ \E g \in Garbage :
                       level_coeffs' = FirstLevelCoeffs(betas, deltas, full_honk_evaluations, g)
    /\ UNCHANGED <<ndebug, accumulator, deltas, full_honk_evaluations, perturbator>>
    /\ UNCHANGED <<pows_vars, lookup_vars, wnaf_vars, fold_vars>>

\* lines 72-74: compute_level at the root returns prev_level_coeffs[0], which
\* construct_perturbator_coeffs and compute_perturbator return in turn
ReturnRoot ==
    /\ pc = "level"
    /\ AtRoot(level, accumulator.gate_separation_challenges)
    /\ InBounds(level_coeffs, 0)
    /\ perturbator' = At(level_coeffs, 0)
    /\ pc' = "returned"
    /\ UNCHANGED <<ndebug, accumulator, deltas, full_honk_evaluations, level, level_coeffs>>
    /\ UNCHANGED <<pows_vars, lookup_vars, wnaf_vars, fold_vars>>

\* prev_level_coeffs[0] of an empty prev_level_coeffs: undefined behaviour
ReturnRootOutOfBounds ==
    /\ pc = "level"
    /\ AtRoot(level, accumulator.gate_separation_challenges)
    /\ ~InBounds(level_coeffs, 0)
    /\ \/ pc' = "crashed" /\ UNCHANGED perturbator
       \/ pc' = "returned" /\ perturbator' \in {<<>>} \cup {<<g>> : g \in Garbage}
    /\ UNCHANGED <<ndebug, accumulator, deltas, full_honk_evaluations, level, level_coeffs>>
    /\ UNCHANGED <<pows_vars, lookup_vars, wnaf_vars, fold_vars>>

\* lines 76-88: one call of compute_level below the root, up to its recursive call
ComputeLevel ==
    /\ pc = "level"
    /\ LET betas == accumulator.gate_separation_challenges
       IN  /\ ~AtRoot(level, betas)
           /\ level_coeffs # <<>>
           /\ ~LevelOutOfBounds(level, betas, deltas, level_coeffs)
           /\ level_coeffs' = ComputeLevelCoeffs(level, betas, deltas, level_coeffs, 0)
    /\ level' = level + 1
    /\ UNCHANGED <<pc, ndebug, accumulator, deltas, full_honk_evaluations, perturbator>>
    /\ UNCHANGED <<pows_vars, lookup_vars, wnaf_vars, fold_vars>>

\* the same lines when an index is outside its vector: undefined behaviour
ComputeLevelOutOfBounds ==
    /\ pc = "level"
    /\ LET betas == accumulator.gate_separation_challenges
       IN  /\ ~AtRoot(level, betas)
           /\ LevelOutOfBounds(level, betas, deltas, level_coeffs)
           /\ \/ /\ pc' = "crashed"
                 /\ UNCHANGED <<level, level_coeffs>>
              \/ /\ pc' = "level"
                 /\ level' = level + 1
                 /\ \E g \in Garbage :
                       level_coeffs' = ComputeLevelCoeffs(level, betas, deltas, level_coeffs, g)
    /\ UNCHANGED <<ndebug, accumulator, deltas, full_honk_evaluations, perturbator>>
    /\ UNCHANGED <<pows_vars, lookup_vars, wnaf_vars, fold_vars>>

\* below the root with an empty prev_level_coeffs the loop does not run and
\* compute_level calls itself with an empty level_coeffs; past the root no level
\* equals betas.size(), so the recursion ends only when the stack is exhausted
ComputeLevelPastRoot ==
    /\ pc = "level"
    /\ ~AtRoot(level, accumulator.gate_separation_challenges)
    /\ level_coeffs = <<>>
    /\ IF level > Len(accumulator.gate_separation_challenges)
       THEN pc' = "crashed" /\ UNCHANGED level
       ELSE pc' = "level" /\ level' = level + 1
    /\ UNCHANGED <<ndebug, accumulator, deltas, full_honk_evaluations, level_coeffs, perturbator>>
    /\ UNCHANGED <<pows_vars, lookup_vars, wnaf_vars, fold_vars>>

compute_perturbator ==
    \/ CheckDeltas
    \/ EvaluateRows
    \/ CheckBetas
    \/ ConstructPerturbatorCoeffs
    \/ ConstructOutOfBounds
    \/ ReturnRoot
    \/ ReturnRootOutOfBounds
    \/ ComputeLevel
    \/ ComputeLevelOutOfBounds
    \/ ComputeLevelPastRoot

----------------------------------------------------------------------------
(* LookupRelationImpl, instantiated with FF accumulators (verifier)        *)

\* static constexpr std::array<size_t, 2> SUBRELATION_LENGTHS{ 6, 3 }
SUBRELATION_LENGTHS == <<6, 3>>

\* the entities of a row that the relation reads
Columns ==
    << "w_l", "w_r", "w_o", "w_l_shift", "w_r_shift", "w_o_shift",
       "table_1", "table_2", "table_3", "table_4",
       "table_1_shift", "table_2_shift", "table_3_shift", "table_4_shift",
       "q_o", "q_r", "q_m", "q_c", "q_lookup",
       "sorted_accum", "sorted_accum_shift",
       "z_lookup", "z_lookup_shift", "lagrange_first", "lagrange_last" >>
ColumnNames == {Columns[k] : k \in 1 .. Len(Columns)}

\* the table accumulators batched with eta_sqr where eta_cube belongs
compute_grand_product_numerator_eta(in, params) ==
    LET beta == params.beta
        gamma == params.gamma
        eta == params.eta
        eta_sqr == Mul(eta, eta)
        eta_cube == Mul(eta_sqr, eta)
        one_plus_beta == Add(1, beta)
        gamma_by_one_plus_beta == Mul(gamma, one_plus_beta)
        wire_accum ==
            Add(Add(Add(Add(in.w_l, Mul(in.q_r, in.w_l_shift)),
                        Mul(Add(in.w_r, Mul(in.q_m, in.w_r_shift)), eta)),
                    Mul(Add(in.w_o, Mul(in.q_c, in.w_o_shift)), eta_sqr)),
                Mul(in.q_o, eta_cube))
        table_accum ==
            Add(Add(Add(in.table_1, Mul(in.table_2, eta)), Mul(in.table_3, eta_sqr)),
                Mul(in.table_4, eta_sqr))
        table_accum_shift ==
            Add(Add(Add(in.table_1_shift, Mul(in.table_2_shift, eta)),
                    Mul(in.table_3_shift, eta_sqr)),
                Mul(in.table_4_shift, eta_sqr))
        tmp1 == Add(Mul(in.q_lookup, wire_accum), gamma)
        tmp2 == Mul(tmp1, Add(Add(table_accum, Mul(table_accum_shift, beta)),
                              gamma_by_one_plus_beta))
    IN  Mul(tmp2, one_plus_beta)

\* compute_grand_product_numerator<Accumulator> with Accumulator = FF
compute_grand_product_numerator(in, params) ==
    LET beta == params.beta
        gamma == params.gamma
        eta == params.eta
        eta_sqr == Mul(eta, eta)
        eta_cube == Mul(eta_sqr, eta)
        one_plus_beta == Add(1, beta)
        gamma_by_one_plus_beta == Mul(gamma, one_plus_beta)
        table_index == in.q_o
        column_1_step_size == in.q_r
        column_2_step_size == in.q_m
        column_3_step_size == in.q_c
        wire_accum ==
            Add(Add(Add(Add(in.w_l, Mul(column_1_step_size, in.w_l_shift)),
                        Mul(Add(in.w_r, Mul(column_2_step_size, in.w_r_shift)), eta)),
                    Mul(Add(in.w_o, Mul(column_3_step_size, in.w_o_shift)), eta_sqr)),
                Mul(table_index, eta_cube))
        table_accum ==
            Add(Add(Add(in.table_1, Mul(in.table_2, eta)), Mul(in.table_3, eta_sqr)),
                Mul(in.table_4, eta_cube))
        table_accum_shift ==
            Add(Add(Add(in.table_1_shift, Mul(in.table_2_shift, eta)),
                    Mul(in.table_3_shift, eta_sqr)),
                Mul(in.table_4_shift, eta_cube))
        tmp1 == Add(Mul(in.q_lookup, wire_accum), gamma)
        tmp2 == Mul(tmp1, Add(Add(table_accum, Mul(table_accum_shift, beta)),
                              gamma_by_one_plus_beta))
    IN  Mul(tmp2, one_plus_beta)

\* the shifted sorted column taken without its factor beta
compute_grand_product_denominator_plain(in, params) ==
    LET beta == params.beta
        gamma == params.gamma
        one_plus_beta == Add(1, beta)
        gamma_by_one_plus_beta == Mul(gamma, one_plus_beta)
    IN  Add(Add(in.sorted_accum, in.sorted_accum_shift), gamma_by_one_plus_beta)

\* compute_grand_product_denominator<Accumulator> with Accumulator = FF
compute_grand_product_denominator(in, params) ==
    LET beta == params.beta
        gamma == params.gamma
        one_plus_beta == Add(1, beta)
        gamma_by_one_plus_beta == Mul(gamma, one_plus_beta)
    IN  Add(Add(in.sorted_accum, Mul(in.sorted_accum_shift, beta)), gamma_by_one_plus_beta)

\* the accumulators overwritten instead of added to
accumulate_overwrite(accumulators, in, params, scaling) ==
    LET grand_product_delta == params.lookup_grand_product_delta
        lhs == compute_grand_product_numerator(in, params)
        rhs == compute_grand_product_denominator(in, params)
        tmp == Sub(Mul(lhs, Add(in.z_lookup, in.lagrange_first)),
                   Mul(rhs, Add(in.z_lookup_shift, Mul(in.lagrange_last, grand_product_delta))))
    IN  << Mul(tmp, scaling),
           Mul(Mul(in.lagrange_last, in.z_lookup_shift), scaling) >>

\* accumulate with std::array<FF, 2> accumulators: the accumulators after the call
accumulate(accumulators, in, params, scaling) ==
    LET grand_product_delta == params.lookup_grand_product_delta
        lhs == compute_grand_product_numerator(in, params)
        rhs == compute_grand_product_denominator(in, params)
        tmp == Sub(Mul(lhs, Add(in.z_lookup, in.lagrange_first)),
                   Mul(rhs, Add(in.z_lookup_shift, Mul(in.lagrange_last, grand_product_delta))))
    IN  << Add(accumulators[1], Mul(tmp, scaling)),
           Add(accumulators[2], Mul(Mul(in.lagrange_last, in.z_lookup_shift), scaling)) >>

----------------------------------------------------------------------------
(* Univariate<FF, length> and UnivariateView<FF, length>: a polynomial held *)
(* as its values at the local indices 0 .. length - 1, with the arithmetic  *)
(* taken index by index                                                     *)

\* UnivariateView<FF, length>(u): the first length values of u
View(u, length) == SubSeq(u, 1, length)
UAdd(u, v) == [k \in 1 .. Len(u) |-> Add(u[k], v[k])]
USub(u, v) == [k \in 1 .. Len(u) |-> Sub(u[k], v[k])]
UMul(u, v) == [k \in 1 .. Len(u) |-> Mul(u[k], v[k])]
\* a Univariate and a field element
UAddFF(u, c) == [k \in 1 .. Len(u) |-> Add(u[k], c)]
UMulFF(u, c) == [k \in 1 .. Len(u) |-> Mul(u[k], c)]

----------------------------------------------------------------------------
(* LookupRelationImpl, instantiated with Univariate accumulators (prover)  *)

\* compute_grand_product_numerator<Accumulator> with Accumulator = Univariate<FF, length>
compute_grand_product_numerator_univariate(in, params, length) ==
    LET beta == params.beta
        gamma == params.gamma
        eta == params.eta
        eta_sqr == Mul(eta, eta)
        eta_cube == Mul(eta_sqr, eta)
        one_plus_beta == Add(1, beta)
        gamma_by_one_plus_beta == Mul(gamma, one_plus_beta)
        w_1 == View(in.w_l, length)
        w_2 == View(in.w_r, length)
        w_3 == View(in.w_o, length)
        w_1_shift == View(in.w_l_shift, length)
        w_2_shift == View(in.w_r_shift, length)
        w_3_shift == View(in.w_o_shift, length)
        table_1 == View(in.table_1, length)
        table_2 == View(in.table_2, length)
        table_3 == View(in.table_3, length)
        table_4 == View(in.table_4, length)
        table_1_shift == View(in.table_1_shift, length)
        table_2_shift == View(in.table_2_shift, length)
        table_3_shift == View(in.table_3_shift, length)
        table_4_shift == View(in.table_4_shift, length)
        table_index == View(in.q_o, length)
        column_1_step_size == View(in.q_r, length)
        column_2_step_size == View(in.q_m, length)
        column_3_step_size == View(in.q_c, length)
        q_lookup == View(in.q_lookup, length)
        wire_accum ==
            UAdd(UAdd(UAdd(UAdd(w_1, UMul(column_1_step_size, w_1_shift)),
                           UMulFF(UAdd(w_2, UMul(column_2_step_size, w_2_shift)), eta)),
                      UMulFF(UAdd(w_3, UMul(column_3_step_size, w_3_shift)), eta_sqr)),
                 UMulFF(table_index, eta_cube))
        table_accum ==
            UAdd(UAdd(UAdd(table_1, UMulFF(table_2, eta)), UMulFF(table_3, eta_sqr)),
                 UMulFF(table_4, eta_cube))
        table_accum_shift ==
            UAdd(UAdd(UAdd(table_1_shift, UMulFF(table_2_shift, eta)),
                      UMulFF(table_3_shift, eta_sqr)),
                 UMulFF(table_4_shift, eta_cube))
        tmp1 == UAddFF(UMul(q_lookup, wire_accum), gamma)
        tmp2 == UMul(tmp1, UAddFF(UAdd(table_accum, UMulFF(table_accum_shift, beta)),
                                  gamma_by_one_plus_beta))
    IN  UMulFF(tmp2, one_plus_beta)

\* compute_grand_product_denominator<Accumulator> with Accumulator = Univariate<FF, length>
compute_grand_product_denominator_univariate(in, params, length) ==
    LET beta == params.beta
        gamma == params.gamma
        one_plus_beta == Add(1, beta)
        gamma_by_one_plus_beta == Mul(gamma, one_plus_beta)
        s_accum == View(in.sorted_accum, length)
        s_accum_shift == View(in.sorted_accum_shift, length)
    IN  UAddFF(UAdd(s_accum, UMulFF(s_accum_shift, beta)), gamma_by_one_plus_beta)

\* the scaling factor left out of the second subrelation
accumulate_univariate_unscaled(accumulators, in, params, scaling) ==
    LET grand_product_delta == params.lookup_grand_product_delta
        length0 == SUBRELATION_LENGTHS[1]
        length1 == SUBRELATION_LENGTHS[2]
        lhs == compute_grand_product_numerator_univariate(in, params, length0)
        rhs == compute_grand_product_denominator_univariate(in, params, length0)
        tmp == USub(UMul(lhs, UAdd(View(in.z_lookup, length0), View(in.lagrange_first, length0))),
                    UMul(rhs, UAdd(View(in.z_lookup_shift, length0),
                                   UMulFF(View(in.lagrange_last, length0), grand_product_delta))))
    IN  << UAdd(accumulators[1], UMulFF(tmp, scaling)),
           UAdd(accumulators[2],
                UMul(View(in.lagrange_last, length1), View(in.z_lookup_shift, length1))) >>

\* accumulate with std::tuple<Univariate<FF, 6>, Univariate<FF, 3>> accumulators
accumulate_univariate(accumulators, in, params, scaling) ==
    LET grand_product_delta == params.lookup_grand_product_delta
        length0 == SUBRELATION_LENGTHS[1]
        length1 == SUBRELATION_LENGTHS[2]
        lhs == compute_grand_product_numerator_univariate(in, params, length0)
        rhs == compute_grand_product_denominator_univariate(in, params, length0)
        tmp == USub(UMul(lhs, UAdd(View(in.z_lookup, length0), View(in.lagrange_first, length0))),
                    UMul(rhs, UAdd(View(in.z_lookup_shift, length0),
                                   UMulFF(View(in.lagrange_last, length0), grand_product_delta))))
    IN  << UAdd(accumulators[1], UMulFF(tmp, scaling)),
           UAdd(accumulators[2],
                UMulFF(UMul(View(in.lagrange_last, length1), View(in.z_lookup_shift, length1)),
                       scaling)) >>

\* Relation<Impl>::UnivariateAccumulators, zero-initialised: one Univariate of
\* each subrelation's length; Relation<Impl>::ValueAccumulators: one FF per
\* subrelation
UnivariateAccumulators == [k \in 1 .. Len(SUBRELATION_LENGTHS) |-> Zeros(SUBRELATION_LENGTHS[k])]
ValueAccumulators == [k \in 1 .. Len(SUBRELATION_LENGTHS) |-> 0]

----------------------------------------------------------------------------
(* Calls of accumulate on one batch of rows                                *)

\* the number of local indices of an extended edge
EdgeLength == SUBRELATION_LENGTHS[1]

\* the row at local index i of the extended edges
RowAt(edges, i) == [c \in ColumnNames |-> At(edges[c], i)]

ColumnIndex(c) == CHOOSE k \in 1 .. Len(Columns) : Columns[k] = c

\* every column zero at every index
ZeroEdges == [c \in ColumnNames |-> Zeros(EdgeLength)]

\* one lookup gate: w_1 = 1, table_1 = 1, q_lookup = 1, sorted_accum = 1 and
\* z_lookup = 1 at every index, every other column zero
GateEdges ==
    [c \in ColumnNames |->
        [i \in 1 .. EdgeLength |->
            IF c \in {"w_l", "table_1", "q_lookup", "sorted_accum", "z_lookup"} THEN 1 ELSE 0]]

\* every column non-constant
DenseEdges(seed) ==
    [c \in ColumnNames |->
        [i \in 1 .. EdgeLength |->
            (seed * ColumnIndex(c) + i * (ColumnIndex(c) + seed)) % FieldModulus]]

Edges == {ZeroEdges, GateEdges} \cup {DenseEdges(seed) : seed \in 1 .. MaxSeed}

Challenges == 0 .. MaxChallenge

LookupIdle ==
    /\ relation_parameters = <<>> /\ new_term = <<>> /\ scaling_factor = 0
    /\ univariate_accumulators = <<>> /\ univariate_calls = 0
    /\ value_accumulators = <<>> /\ value_calls = 0 /\ value_row = 0
    /\ value_lhs = 0 /\ value_rhs = 0

\* the parameters beta = 2, gamma = 3, eta = 5
GateParameters == [beta |-> 2, gamma |-> 3, eta |-> 5, lookup_grand_product_delta |-> 0]

Parameters ==
    [beta : Challenges, gamma : Challenges, eta : Challenges,
     lookup_grand_product_delta : Challenges] \cup {GateParameters}

\* the numerator and the denominator of the grand product as the relation's
\* documentation writes them
GrandProductNumerator(in, params) ==
    LET beta == params.beta
        gamma == params.gamma
        eta == params.eta
        eta2 == Mul(eta, eta)
        eta3 == Mul(eta, eta2)
        f == Add(Add(Add(Add(in.w_l, Mul(in.q_r, in.w_l_shift)),
                         Mul(eta, Add(in.w_r, Mul(in.q_m, in.w_r_shift)))),
                     Mul(eta2, Add(in.w_o, Mul(in.q_c, in.w_o_shift)))),
                 Mul(eta3, in.q_o))
        t == Add(Add(Add(in.table_1, Mul(eta, in.table_2)), Mul(eta2, in.table_3)),
                 Mul(eta3, in.table_4))
        t_shift == Add(Add(Add(in.table_1_shift, Mul(eta, in.table_2_shift)),
                           Mul(eta2, in.table_3_shift)),
                       Mul(eta3, in.table_4_shift))
    IN  Mul(Mul(Add(1, beta), Add(Mul(in.q_lookup, f), gamma)),
            Add(Add(t, Mul(beta, t_shift)), Mul(gamma, Add(1, beta))))

GrandProductDenominator(in, params) ==
    Add(Add(in.sorted_accum, Mul(params.beta, in.sorted_accum_shift)),
        Mul(params.gamma, Add(1, params.beta)))

\* the rows of a batch: the local indices of an edge, or the rows of a trace
Rows(term) == Len(term.w_l)

Inverse(a) == CHOOSE x \in FF : Mul(a, x) = 1

\* the wires, tables and selectors of a trace of n rows
TraceColumns(n, seed) ==
    [c \in ColumnNames |->
        [i \in 1 .. n |-> (seed + ColumnIndex(c) * i + seed * i * i) % 3]]

\* the grand product at row r: Z[0] = 0 and
\* Z[r + 1] = (Z[r] + lagrange_first[r]) * Numerator(r) / Denominator(r)
RECURSIVE GrandProduct(_, _, _)
GrandProduct(columns, params, r) ==
    IF r = 0 THEN 0
    ELSE LET in == RowAt(columns, r - 1)
         IN  Mul(Mul(Add(GrandProduct(columns, params, r - 1), IF r = 1 THEN 1 ELSE 0),
                     GrandProductNumerator(in, params)),
                 Inverse(GrandProductDenominator(in, params)))

\* the trace with its Lagrange columns and its grand product column
Trace(n, seed, params) ==
    LET columns == TraceColumns(n, seed)
    IN  [columns EXCEPT
            !.lagrange_first = [i \in 1 .. n |-> IF i = 1 THEN 1 ELSE 0],
            !.lagrange_last = [i \in 1 .. n |-> IF i = n THEN 1 ELSE 0],
            !.z_lookup = [i \in 1 .. n |-> GrandProduct(columns, params, i - 1)],
            !.z_lookup_shift =
                [i \in 1 .. n |-> IF i < n THEN GrandProduct(columns, params, i) ELSE 0]]

\* the grand product taken over every row of the trace
GrandProductDelta(n, seed, params) ==
    GrandProduct(TraceColumns(n, seed), params, n)

\* the traces with the parameters they are proved under: the grand product
\* delta of the trace, the delta 0, or another one
TraceInputs ==
    UNION { { <<Trace(x[1], x[2], x[3]), [x[3] EXCEPT !.lookup_grand_product_delta = delta]>> :
                delta \in {0, GrandProductDelta(x[1], x[2], x[3]),
                           Add(GrandProductDelta(x[1], x[2], x[3]), 1)} } :
            x \in { y \in (1 .. MaxRows) \X (1 .. MaxSeed) \X Parameters :
                      /\ y[3].lookup_grand_product_delta = 0
                      /\ \A r \in 0 .. (y[1] - 1) :
                            GrandProductDenominator(RowAt(TraceColumns(y[1], y[2]), r), y[3])
                                # 0 } }

LookupInit ==
    /\ \/ /\ relation_parameters \in Parameters
          /\ new_term \in Edges
          /\ univariate_accumulators = UnivariateAccumulators
       \/ /\ \E in \in TraceInputs : new_term = in[1] /\ relation_parameters = in[2]
          /\ univariate_accumulators = <<>>
    /\ scaling_factor \in Challenges
    /\ univariate_calls = 0
    /\ value_accumulators \in {ValueAccumulators, <<1, 2>>}
    /\ value_calls = 0
    /\ value_row = 0
    /\ value_lhs = 0
    /\ value_rhs = 0

\* the prover accumulates the batch
AccumulateUnivariates ==
    /\ univariate_accumulators # <<>>
    /\ univariate_calls + value_calls < MaxCalls
    /\ univariate_accumulators' =
          accumulate_univariate(univariate_accumulators, new_term, relation_parameters,
                                scaling_factor)
    /\ univariate_calls' = univariate_calls + 1
    /\ UNCHANGED <<relation_parameters, new_term, scaling_factor,
                   value_accumulators, value_calls, value_row, value_lhs, value_rhs>>
    /\ UNCHANGED <<pows_vars, perturbator_vars, wnaf_vars, fold_vars>>

\* the verifier accumulates the row at local index row
AccumulateValues ==
    /\ univariate_calls + value_calls < MaxCalls
    /\ \E row \in 0 .. (Rows(new_term) - 1) :
          /\ value_accumulators' =
                accumulate(value_accumulators, RowAt(new_term, row), relation_parameters,
                           scaling_factor)
          /\ value_row' = row
          /\ value_lhs' = compute_grand_product_numerator(RowAt(new_term, row),
                                                          relation_parameters)
          /\ value_rhs' = compute_grand_product_denominator(RowAt(new_term, row),
                                                            relation_parameters)
    /\ value_calls' = value_calls + 1
    /\ UNCHANGED <<relation_parameters, new_term, scaling_factor,
                   univariate_accumulators, univariate_calls>>
    /\ UNCHANGED <<pows_vars, perturbator_vars, wnaf_vars, fold_vars>>

LookupNext ==
    \/ AccumulateUnivariates
    \/ AccumulateValues

----------------------------------------------------------------------------
(* The fold                                                                *)

FoldIdle ==
    /\ fold_state = "idle" /\ fold_prepared = FALSE /\ fold_history = <<>>
    /\ fold_alpha = 0 /\ fold_betas = <<>> /\ fold_rows_done = {} /\ fold_nodes_done = {}
    /\ fold_prev_level_coeffs = <<>>

\* the row read with every value read moved out of its polynomial
get_execution_row_moving(acc, row) ==
    [row_evals |-> RowAt(acc.prover_polynomials, row),
     accumulator |->
        [acc EXCEPT !.prover_polynomials =
            [c \in ColumnNames |-> Put(acc.prover_polynomials[c], row, 0)]]]

\* get_execution_row: row_evals[idx] = poly[row] for every polynomial of the
\* accumulator; the row returned and the accumulator pointed to after the call
get_execution_row(acc, row) ==
    [row_evals |-> RowAt(acc.prover_polynomials, row),
     accumulator |-> acc]

\* the subrelation values batched by the powers alpha^0, alpha^1, ... from slot j on
RECURSIVE BatchFrom(_, _, _)
BatchFrom(values, alpha, j) ==
    IF j > Len(values) THEN 0
    ELSE Add(values[j], Mul(alpha, BatchFrom(values, alpha, j + 1)))

\* the value of the first subrelation alone
compute_full_honk_relation_row_value_first(row_evaluations, alpha, params) ==
    accumulate(ValueAccumulators, row_evaluations, params, 1)[1]

\* compute_full_honk_relation_row_value: accumulate with scaling factor 1 into
\* zero accumulators, then the subrelation values batched by the powers of alpha
compute_full_honk_relation_row_value(row_evaluations, alpha, params) ==
    BatchFrom(accumulate(ValueAccumulators, row_evaluations, params, 1), alpha, 1)

\* compute_round_challenge_pows as one step
RoundChallengePows(t, challenge) ==
    LET RECURSIVE Fill(_, _)
        Fill(pws, i) == IF i < t THEN Fill(Put(pws, i, SquarePrevious(pws, i)), i + 1) ELSE pws
    IN  Fill(Put(Zeros(t), 0, challenge), 1)

FoldParameters ==
    {GateParameters} \cup
    {[beta |-> b, gamma |-> 1, eta |-> b, lookup_grand_product_delta |-> 0] : b \in 1 .. MaxChallenge}

FoldBetas(t) == {[i \in 1 .. t |-> (b * i) % FieldModulus] : b \in 0 .. MaxChallenge}

\* the instances folded: a satisfying trace, the trace with another grand
\* product delta, and the trace whose shifted grand product is 1 at the last
\* row while its first subrelation still holds there
Instances(t) ==
    LET n == Pow2(t)
    IN  UNION { { [prover_polynomials |-> Trace(n, seed, params),
                   relation_parameters |->
                       [params EXCEPT !.lookup_grand_product_delta =
                                          GrandProductDelta(n, seed, params)],
                   folding_params |-> [gate_separation_challenges |-> betas]],
                  [prover_polynomials |-> Trace(n, seed, params),
                   relation_parameters |->
                       [params EXCEPT !.lookup_grand_product_delta =
                                          Add(GrandProductDelta(n, seed, params), 1)],
                   folding_params |-> [gate_separation_challenges |-> betas]],
                  [prover_polynomials |->
                       [Trace(n, seed, params) EXCEPT !.z_lookup_shift[n] = 1],
                   relation_parameters |->
                       [params EXCEPT !.lookup_grand_product_delta =
                                          Sub(GrandProductDelta(n, seed, params), 1)],
                   folding_params |-> [gate_separation_challenges |-> betas]] } :
                <<seed, params, betas>> \in (1 .. MaxSeed) \X FoldParameters \X FoldBetas(t) }

\* accumulator->prover_polynomials[0].size()
FoldInstanceSize == Len(accumulator.prover_polynomials[Columns[1]])

FoldInit ==
    /\ fold_state = "Initialized"
    /\ fold_prepared = FALSE
    /\ fold_history = <<"Initialized">>
    /\ \E t \in 1 .. MaxFoldLogSize :
          /\ accumulator \in Instances(t)
          /\ deltas \in {RoundChallengePows(t, challenge) : challenge \in 1 .. MaxChallenge}
    /\ fold_alpha \in Challenges
    /\ pc = "prepare"
    /\ ndebug = "unknown"
    /\ full_honk_evaluations = <<>>
    /\ level = 0
    /\ level_coeffs = <<>>
    /\ perturbator = <<>>
    /\ fold_betas = <<>>
    /\ fold_rows_done = {}
    /\ fold_nodes_done = {}
    /\ fold_prev_level_coeffs = <<>>

\* prepare_for_folding: the setup for the transcript, no relation evaluated
prepare_for_folding ==
    /\ pc = "prepare"
    /\ fold_state = "Initialized"
    /\ ~fold_prepared
    /\ fold_prepared' = TRUE
    /\ pc' = "fold"
    /\ UNCHANGED <<fold_state, fold_history, fold_alpha, fold_betas, fold_rows_done,
                   fold_nodes_done, fold_prev_level_coeffs>>
    /\ UNCHANGED <<ndebug, accumulator, deltas, full_honk_evaluations, level, level_coeffs,
                   perturbator>>
    /\ UNCHANGED <<pows_vars, lookup_vars, wnaf_vars>>

\* fold_instances calls compute_perturbator(get_accumulator(), deltas, alpha);
\* lines 109-112: the assert on deltas and std::vector<FF> full_honk_evaluations(instance_size)
FoldComputePerturbator ==
    /\ pc = "fold"
    /\ Len(deltas) = get_msb(FoldInstanceSize)
    /\ full_honk_evaluations' = Zeros(FoldInstanceSize)
    /\ pc' = "rows"
    /\ UNCHANGED <<ndebug, accumulator, deltas, level, level_coeffs, perturbator>>
    /\ UNCHANGED fold_vars
    /\ UNCHANGED <<pows_vars, lookup_vars, wnaf_vars>>

\* lines 115-119: the iteration idx of the row loop
FoldEvaluateRow ==
    /\ pc = "rows"
    /\ \E idx \in (0 .. (FoldInstanceSize - 1)) \ fold_rows_done :
          LET got == get_execution_row(accumulator, idx)
              full_honk_at_row ==
                  compute_full_honk_relation_row_value(got.row_evals, fold_alpha,
                                                       got.accumulator.relation_parameters)
          IN  /\ accumulator' = got.accumulator
              /\ full_honk_evaluations' = Put(full_honk_evaluations, idx, full_honk_at_row)
              /\ fold_rows_done' = fold_rows_done \cup {idx}
    /\ UNCHANGED <<pc, ndebug, deltas, level, level_coeffs, perturbator>>
    /\ UNCHANGED <<fold_state, fold_prepared, fold_history, fold_alpha, fold_betas,
                   fold_nodes_done, fold_prev_level_coeffs>>
    /\ UNCHANGED <<pows_vars, lookup_vars, wnaf_vars>>

\* the row loop left after its first iteration
RowLoopDoneEarly(done, size) == done # {}

\* idx < instance_size fails: every iteration of the row loop has run
RowLoopDone(done, size) == done = 0 .. (size - 1)

\* lines 122-124 and 96-97: betas is read from the accumulator, asserted, and
\* construct_perturbator_coeffs allocates first_level_coeffs
FoldRowsJoin ==
    /\ pc = "rows"
    /\ RowLoopDone(fold_rows_done, FoldInstanceSize)
    /\ Len(accumulator.folding_params.gate_separation_challenges) = get_msb(FoldInstanceSize)
    /\ fold_betas' = accumulator.folding_params.gate_separation_challenges
    /\ level_coeffs' = [k \in 1 .. (Len(full_honk_evaluations) \div 2) |-> Zeros(2)]
    /\ fold_nodes_done' = {}
    /\ fold_state' = "RowsEvaluated"
    /\ fold_history' = Append(fold_history, "RowsEvaluated")
    /\ pc' = "first"
    /\ UNCHANGED <<ndebug, accumulator, deltas, full_honk_evaluations, level, perturbator>>
    /\ UNCHANGED <<fold_prepared, fold_alpha, fold_rows_done, fold_prev_level_coeffs>>
    /\ UNCHANGED <<pows_vars, lookup_vars, wnaf_vars>>

\* every pair written to slot 0
ParentShared(node) == 0

\* auto idx = node / 2; auto parent = node / 2;
Parent(node) == node \div 2

\* the nodes of the pair loop over a level of the given width
Nodes(width) == {node \in 0 .. (width - 1) : node % 2 = 0}

\* lines 100-101: the coefficients of the pair (left, right) of rows
FirstLevelPair(left, right, beta, delta) ==
    << Add(left, Mul(right, beta)), Mul(right, delta) >>

\* lines 98-102: the iteration node of the loop of construct_perturbator_coeffs
FoldFirstLevelPair ==
    /\ pc = "first"
    /\ \E node \in Nodes(Len(full_honk_evaluations)) \ fold_nodes_done :
          /\ level_coeffs' =
                Put(level_coeffs, Parent(node),
                    FirstLevelPair(At(full_honk_evaluations, node),
                                   At(full_honk_evaluations, node + 1),
                                   At(fold_betas, 0), At(deltas, 0)))
          /\ fold_nodes_done' = fold_nodes_done \cup {node}
    /\ UNCHANGED <<pc, ndebug, accumulator, deltas, full_honk_evaluations, level, perturbator>>
    /\ UNCHANGED <<fold_state, fold_prepared, fold_history, fold_alpha, fold_betas,
                   fold_rows_done, fold_prev_level_coeffs>>
    /\ UNCHANGED <<pows_vars, lookup_vars, wnaf_vars>>

\* line 103: compute_level(1, betas, deltas, first_level_coeffs)
FoldFirstLevelJoin ==
    /\ pc = "first"
    /\ fold_nodes_done = Nodes(Len(full_honk_evaluations))
    /\ level' = 1
    /\ fold_prev_level_coeffs' = level_coeffs
    /\ pc' = "enter"
    /\ UNCHANGED <<ndebug, accumulator, deltas, full_honk_evaluations, level_coeffs,
                   perturbator>>
    /\ UNCHANGED <<fold_state, fold_prepared, fold_history, fold_alpha, fold_betas,
                   fold_rows_done, fold_nodes_done>>
    /\ UNCHANGED <<pows_vars, lookup_vars, wnaf_vars>>

\* lines 72-74: at the root compute_level returns prev_level_coeffs[0], which
\* compute_perturbator returns to fold_instances
FoldReturnRoot ==
    /\ pc = "enter"
    /\ AtRoot(level, fold_betas)
    /\ perturbator' = At(fold_prev_level_coeffs, 0)
    /\ fold_state' = "PerturbatorBuilt"
    /\ fold_history' = Append(fold_history, "PerturbatorBuilt")
    /\ pc' = "returned"
    /\ UNCHANGED <<ndebug, accumulator, deltas, full_honk_evaluations, level, level_coeffs>>
    /\ UNCHANGED <<fold_prepared, fold_alpha, fold_betas, fold_rows_done, fold_nodes_done,
                   fold_prev_level_coeffs>>
    /\ UNCHANGED <<pows_vars, lookup_vars, wnaf_vars>>

\* lines 76-79: below the root compute_level allocates level_coeffs
FoldLevelAllocate ==
    /\ pc = "enter"
    /\ ~AtRoot(level, fold_betas)
    /\ level_coeffs' =
          [k \in 1 .. (Len(fold_prev_level_coeffs) \div 2) |-> Zeros(level + 2)]
    /\ fold_nodes_done' = {}
    /\ pc' = "level"
    /\ UNCHANGED <<ndebug, accumulator, deltas, full_honk_evaluations, level, perturbator>>
    /\ UNCHANGED <<fold_state, fold_prepared, fold_history, fold_alpha, fold_betas,
                   fold_rows_done, fold_prev_level_coeffs>>
    /\ UNCHANGED <<pows_vars, lookup_vars, wnaf_vars>>

\* lines 80-87: the iteration node of the pair loop of compute_level
FoldLevelPair ==
    /\ pc = "level"
    /\ \E node \in Nodes(Len(fold_prev_level_coeffs)) \ fold_nodes_done :
          /\ level_coeffs' =
                Put(level_coeffs, Parent(node),
                    CombinePair(At(fold_prev_level_coeffs, node),
                                At(fold_prev_level_coeffs, node + 1),
                                At(fold_betas, level), At(deltas, level), level + 1))
          /\ fold_nodes_done' = fold_nodes_done \cup {node}
    /\ UNCHANGED <<pc, ndebug, accumulator, deltas, full_honk_evaluations, level, perturbator>>
    /\ UNCHANGED <<fold_state, fold_prepared, fold_history, fold_alpha, fold_betas,
                   fold_rows_done, fold_prev_level_coeffs>>
    /\ UNCHANGED <<pows_vars, lookup_vars, wnaf_vars>>

\* line 88: compute_level(level + 1, betas, deltas, level_coeffs)
FoldLevelJoin ==
    /\ pc = "level"
    /\ fold_nodes_done = Nodes(Len(fold_prev_level_coeffs))
    /\ level' = level + 1
    /\ fold_prev_level_coeffs' = level_coeffs
    /\ pc' = "enter"
    /\ UNCHANGED <<ndebug, accumulator, deltas, full_honk_evaluations, level_coeffs,
                   perturbator>>
    /\ UNCHANGED <<fold_state, fold_prepared, fold_history, fold_alpha, fold_betas,
                   fold_rows_done, fold_nodes_done>>
    /\ UNCHANGED <<pows_vars, lookup_vars, wnaf_vars>>

\* fold_instances combines the perturbator and the instances into the result
fold_instances ==
    /\ pc = "returned"
    /\ fold_state = "PerturbatorBuilt"
    /\ fold_state' = "Folded"
    /\ fold_history' = Append(fold_history, "Folded")
    /\ pc' = "folded"
    /\ UNCHANGED <<ndebug, accumulator, deltas, full_honk_evaluations, level, level_coeffs,
                   perturbator>>
    /\ UNCHANGED <<fold_prepared, fold_alpha, fold_betas, fold_rows_done, fold_nodes_done,
                   fold_prev_level_coeffs>>
    /\ UNCHANGED <<pows_vars, lookup_vars, wnaf_vars>>

FoldNext ==
    \/ prepare_for_folding
    \/ FoldComputePerturbator
    \/ FoldEvaluateRow
    \/ FoldRowsJoin
    \/ FoldFirstLevelPair
    \/ FoldFirstLevelJoin
    \/ FoldReturnRoot
    \/ FoldLevelAllocate
    \/ FoldLevelPair
    \/ FoldLevelJoin
    \/ fold_instances

----------------------------------------------------------------------------
(* ECCVMSetRelationBase::convert_to_wnaf                                    *)

WnafIdle == wnaf_pc = "idle" /\ wnaf_s0 = 0 /\ wnaf_s1 = 0 /\ wnaf_naf = 0

WnafInit ==
    /\ wnaf_pc = "call"
    /\ wnaf_s0 \in FF
    /\ wnaf_s1 \in FF
    /\ wnaf_naf = 0

\* one doubling of s0 instead of two
convert_to_wnaf_doubled_once(s0, s1) ==
    LET t0 == Add(s0, s0)
        t2 == Add(t0, s1)
        naf == Sub(Add(t2, t2), 15 % FieldModulus)
    IN  naf

\* auto t = s0 + s0; t += t; t += s1; auto naf = t + t - 15; return naf;
convert_to_wnaf(s0, s1) ==
    LET t0 == Add(s0, s0)
        t1 == Add(t0, t0)
        t2 == Add(t1, s1)
        naf == Sub(Add(t2, t2), 15 % FieldModulus)
    IN  naf

ConvertToWnaf ==
    /\ wnaf_pc = "call"
    /\ wnaf_naf' = convert_to_wnaf(wnaf_s0, wnaf_s1)
    /\ wnaf_pc' = "returned"
    /\ UNCHANGED <<wnaf_s0, wnaf_s1>>
    /\ UNCHANGED <<pows_vars, perturbator_vars, lookup_vars, fold_vars>>

----------------------------------------------------------------------------
(* Specifications                                                          *)

PowsSpecInit == PowsInit /\ PerturbatorIdle /\ LookupIdle /\ WnafIdle /\ FoldIdle
SpecPows == PowsSpecInit /\ [][compute_round_challenge_pows]_vars

PerturbatorSpecInit == PerturbatorInit /\ PowsIdle /\ LookupIdle /\ WnafIdle /\ FoldIdle
SpecPerturbator == PerturbatorSpecInit /\ [][compute_perturbator]_vars

LookupSpecInit == LookupInit /\ PowsIdle /\ PerturbatorIdle /\ WnafIdle /\ FoldIdle
SpecLookup == LookupSpecInit /\ [][LookupNext]_vars

FoldSpecInit == FoldInit /\ PowsIdle /\ LookupIdle /\ WnafIdle
SpecFold == FoldSpecInit /\ [][FoldNext]_vars

WnafSpecInit == WnafInit /\ PowsIdle /\ PerturbatorIdle /\ LookupIdle /\ FoldIdle
SpecWnaf == WnafSpecInit /\ [][ConvertToWnaf]_vars

----------------------------------------------------------------------------
(* Reference definitions used by the properties                            *)

\* a^e by repeated multiplication
RECURSIVE Pow(_, _)
Pow(a, e) == IF e = 0 THEN 1 ELSE Mul(a, Pow(a, e - 1))

\* bit k of the natural number x
Bit(x, k) == (x \div Pow2(k)) % 2

\* the sum in FF of f[lo], ..., f[hi]
RECURSIVE SumOver(_, _, _)
SumOver(f, lo, hi) == IF lo > hi THEN 0 ELSE Add(f[lo], SumOver(f, lo + 1, hi))

\* the number of bits set in x below bit t
RECURSIVE PopCount(_, _)
PopCount(x, t) == IF t = 0 THEN 0 ELSE Bit(x, t - 1) + PopCount(x, t - 1)

\* the mask m selects a subset of the bits set in i
SubMask(m, i, t) == \A k \in 0 .. (t - 1) : Bit(m, k) <= Bit(i, k)

\* In the product over the bits k set in i of (beta_k + delta_k * X), the term
\* that takes delta_k * X at the bits of m and beta_k at the other bits of i
RECURSIVE ExpansionTerm(_, _, _, _, _)
ExpansionTerm(betas, dlts, i, m, t) ==
    IF t = 0 THEN 1
    ELSE Mul(IF Bit(m, t - 1) = 1 THEN At(dlts, t - 1)
             ELSE IF Bit(i, t - 1) = 1 THEN At(betas, t - 1) ELSE 1,
             ExpansionTerm(betas, dlts, i, m, t - 1))

\* coefficient j of  sum_i v_i * prod_{k : bit k of i} (beta_k + delta_k * X)
ExpansionCoefficient(betas, dlts, v, j) ==
    LET t == Len(betas)
        n == Len(v)
        row == [i \in 0 .. (n - 1) |->
                  Mul(At(v, i),
                      SumOver([m \in 0 .. (n - 1) |->
                                  IF SubMask(m, i, t) /\ PopCount(m, t) = j
                                  THEN ExpansionTerm(betas, dlts, i, m, t) ELSE 0],
                              0, n - 1))]
    IN  SumOver(row, 0, n - 1)

\* the product of beta_k over the bits k set in i
RECURSIVE BetaProduct(_, _, _)
BetaProduct(betas, i, t) ==
    IF t = 0 THEN 1
    ELSE Mul(IF Bit(i, t - 1) = 1 THEN At(betas, t - 1) ELSE 1, BetaProduct(betas, i, t - 1))

\* the inputs of compute_perturbator that satisfy its preconditions, t >= 1
LogSize == get_msb(instance_size)
ValidInput ==
    /\ LogSize >= 1
    /\ instance_size = Pow2(LogSize)
    /\ Len(accumulator.gate_separation_challenges) = LogSize
    /\ Len(deltas) = LogSize

----------------------------------------------------------------------------
(* Properties                                                              *)

\* C1: on betas and deltas of length t >= 1 and 2^t row values,
\* construct_perturbator_coeffs returns the coefficients, lowest degree first,
\* of sum_i v_i * prod_{k : bit k of i} (beta_k + delta_k * X).
C1_PerturbatorIsExpansion ==
    (pc = "returned" /\ ValidInput) =>
        perturbator = [j \in 1 .. (LogSize + 1) |->
                          ExpansionCoefficient(accumulator.gate_separation_challenges, deltas,
                                               full_honk_evaluations, j - 1)]

C1_Witness ==
    /\ pc = "returned" /\ ValidInput /\ LogSize = MaxLogSize
    /\ \A k \in 1 .. instance_size : full_honk_evaluations[k] # 0
    /\ \A k \in 1 .. LogSize : accumulator.gate_separation_challenges[k] = 2 /\ deltas[k] = 2

\* C2: on valid inputs, when compute_level is entered with level = k + 1 (after
\* level k) the working set holds n / 2^(k+1) vectors of length k + 2, and the
\* call returns after t levels one vector of t + 1 coefficients.
C2_WidthHalves ==
    ValidInput =>
        /\ pc = "level" =>
              /\ level >= 1 /\ level <= LogSize
              /\ Len(level_coeffs) * Pow2(level) = instance_size
              /\ \A k \in 1 .. Len(level_coeffs) : Len(level_coeffs[k]) = level + 1
        /\ pc = "returned" =>
              /\ level = LogSize
              /\ Len(level_coeffs) = 1
              /\ Len(perturbator) = LogSize + 1

C2_Witness ==
    /\ pc = "returned" /\ ValidInput /\ LogSize = MaxLogSize
    /\ Len(perturbator) = MaxLogSize + 1

\* C3: on valid inputs coefficient 0 of the perturbator is
\* sum_i v_i * prod_{k : bit k of i} beta_k, whatever the deltas.
C3_ValueAtZero ==
    (pc = "returned" /\ ValidInput) =>
        At(perturbator, 0) =
            SumOver([i \in 0 .. (instance_size - 1) |->
                        Mul(At(full_honk_evaluations, i),
                            BetaProduct(accumulator.gate_separation_challenges, i, LogSize))],
                    0, instance_size - 1)

C3_Witness ==
    /\ pc = "returned" /\ ValidInput /\ LogSize >= 2
    /\ At(full_honk_evaluations, instance_size - 1) # 0
    /\ \A k \in 1 .. LogSize : accumulator.gate_separation_challenges[k] = 2
    /\ At(perturbator, 0) # 0

C6_ZeroRowsZeroPerturbator ==
    (pc = "returned" /\ ValidInput /\ full_honk_evaluations = Zeros(instance_size)) =>
        perturbator = Zeros(LogSize + 1)

C6_Witness ==
    /\ pc = "returned" /\ ValidInput /\ instance_size = 8
    /\ full_honk_evaluations = Zeros(8)
    /\ \A k \in 1 .. 3 : accumulator.gate_separation_challenges[k] # 0 /\ deltas[k] # 0
    /\ perturbator = <<0, 0, 0, 0>>

\* C7: when deltas or betas do not have length log2(instance_size),
\* compute_perturbator aborts and construct_perturbator_coeffs is not entered.
C7_LengthViolationAborts ==
    (\/ Len(deltas) # LogSize
     \/ Len(accumulator.gate_separation_challenges) # LogSize)
        => pc \in {"call", "rows", "betas", "aborted"}

\* C8: when instance_size is not a power of two, compute_perturbator fails at
\* the call: it evaluates no row, enters no level and returns nothing.
C8_NonPowerOfTwoFails ==
    instance_size # Pow2(LogSize) => pc \in {"call", "aborted"}

\* accumulate called times times on the same row, from the accumulators acc
RECURSIVE AccumulateTimes(_, _, _, _, _)
AccumulateTimes(times, acc, in, params, scaling) ==
    IF times = 0 THEN acc
    ELSE accumulate(AccumulateTimes(times - 1, acc, in, params, scaling), in, params, scaling)

C11_NumeratorDenominator ==
    value_calls >= 1 =>
        LET in == RowAt(new_term, value_row)
        IN  /\ value_lhs = GrandProductNumerator(in, relation_parameters)
            /\ value_rhs = GrandProductDenominator(in, relation_parameters)
            /\ (relation_parameters = GateParameters /\ new_term = GateEdges) =>
                  value_lhs = 120 /\ value_rhs = 10

C11_Witness ==
    /\ value_calls = 1
    /\ relation_parameters = GateParameters
    /\ new_term = GateEdges
    /\ value_lhs = 120
    /\ value_rhs = 10

\* the Lagrange columns, the shift of z_lookup and the grand product recurrence
\* on every row but the last
SatisfyingBeforeLast ==
    LET n == Rows(new_term)
    IN  /\ \A r \in 0 .. (n - 1) :
              /\ At(new_term.lagrange_first, r) = (IF r = 0 THEN 1 ELSE 0)
              /\ At(new_term.lagrange_last, r) = (IF r = n - 1 THEN 1 ELSE 0)
              /\ At(new_term.z_lookup_shift, r) =
                    (IF r < n - 1 THEN At(new_term.z_lookup, r + 1) ELSE 0)
        /\ \A r \in 0 .. (n - 2) :
              Mul(At(new_term.z_lookup, r + 1), GrandProductDenominator(RowAt(new_term, r), relation_parameters))
                  = Mul(Add(At(new_term.z_lookup, r), At(new_term.lagrange_first, r)),
                        GrandProductNumerator(RowAt(new_term, r), relation_parameters))

\* the last row closes the grand product on lookup_grand_product_delta
SatisfyingAsStated ==
    LET last == Rows(new_term) - 1
    IN  /\ SatisfyingBeforeLast
        /\ Mul(At(new_term.z_lookup, last), GrandProductNumerator(RowAt(new_term, last), relation_parameters))
              = Mul(GrandProductDenominator(RowAt(new_term, last), relation_parameters),
                    relation_parameters.lookup_grand_product_delta)

Satisfying ==
    LET last == Rows(new_term) - 1
    IN  /\ SatisfyingBeforeLast
        /\ Mul(Add(At(new_term.z_lookup, last), At(new_term.lagrange_first, last)),
               GrandProductNumerator(RowAt(new_term, last), relation_parameters))
              = Mul(GrandProductDenominator(RowAt(new_term, last), relation_parameters),
                    relation_parameters.lookup_grand_product_delta)

AllZero(in) == \A c \in ColumnNames : in[c] = 0

\* C12 as stated: for a witness whose last row satisfies
\* z_lookup[n-1] * Numerator(n-1) = Denominator(n-1) * lookup_grand_product_delta,
\* accumulate into zero accumulators with scaling factor 1 leaves zero in both
\* slots at every row, and so does an all-zero row for every beta, gamma, eta.
C12_VanishesAsStated ==
    [][(/\ value_calls' = value_calls + 1
        /\ value_accumulators = ValueAccumulators
        /\ scaling_factor = 1
        /\ SatisfyingAsStated \/ AllZero(RowAt(new_term, value_row')))
       => value_accumulators' = ValueAccumulators]_vars

\* C12: for a satisfying witness over n rows, the last row closing with
\* (z_lookup[n-1] + lagrange_first[n-1]) * Numerator(n-1)
\*     = Denominator(n-1) * lookup_grand_product_delta,
\* accumulate into zero accumulators with scaling factor 1 leaves zero in both
\* slots at every row, and so does an all-zero row for every beta, gamma, eta.
C12_SubrelationsVanish ==
    [][(/\ value_calls' = value_calls + 1
        /\ value_accumulators = ValueAccumulators
        /\ scaling_factor = 1
        /\ Satisfying \/ AllZero(RowAt(new_term, value_row')))
       => value_accumulators' = ValueAccumulators]_vars

C12_Witness ==
    /\ value_calls = 1
    /\ scaling_factor = 1
    /\ Satisfying
    /\ Rows(new_term) = 3
    /\ value_row = 2
    /\ At(new_term.z_lookup, 2) > 1
    /\ value_lhs # 0
    /\ relation_parameters.lookup_grand_product_delta > 1
    /\ value_accumulators = ValueAccumulators

\* C18: for an instance of size 1 with empty betas and deltas the call ends
\* without an access outside a vector and without recursing past the root, and
\* what it returns is the single coefficient [v_0].
C18_SizeOneReturnsRow ==
    (/\ instance_size = 1
     /\ accumulator.gate_separation_challenges = <<>>
     /\ deltas = <<>>)
        => /\ pc # "crashed"
           /\ pc = "level" => /\ level <= Len(accumulator.gate_separation_challenges)
                              /\ level_coeffs # <<>>
           /\ pc = "returned" => perturbator = <<At(accumulator.full_relation_values, 0)>>

\* C19: for every log_instance_size t >= 0 compute_round_challenge_pows writes
\* only the indices 0 .. t - 1 of the vector and returns exactly t elements; for
\* t = 0 it writes nothing and returns the empty sequence.
C19_WritesInsideVector ==
    /\ pows_pc = "first" => InBounds(pows, 0) /\ 0 <= log_instance_size - 1
    /\ (pows_pc = "loop" /\ pows_i < log_instance_size) => InBounds(pows, pows_i)
    /\ pows_pc # "crashed"
    /\ pows_pc = "returned" => Len(pows) = log_instance_size

\* the representative of a field element nearest to zero
Signed(a) == IF a > FieldModulus \div 2 THEN a - FieldModulus ELSE a

\* C16: convert_to_wnaf(s0, s1) is 2 * (4 * s0 + s1) - 15 in the field for all
\* field elements s0, s1, and for slices s0, s1 in 0 .. 3 that is an odd digit
\* in -15 .. 15.
C16_WnafDigit ==
    wnaf_pc = "returned" =>
        /\ wnaf_naf = Sub(Mul(2, Add(Mul(4, wnaf_s0), wnaf_s1)), 15)
        /\ (wnaf_s0 \in 0 .. 3 /\ wnaf_s1 \in 0 .. 3) =>
              /\ Signed(wnaf_naf) \in -15 .. 15
              /\ Signed(wnaf_naf) % 2 = 1
              /\ Signed(wnaf_naf) = 2 * (4 * wnaf_s0 + wnaf_s1) - 15

C16_Witness ==
    /\ wnaf_pc = "returned"
    /\ wnaf_s0 = 1
    /\ wnaf_s1 = 2
    /\ Signed(wnaf_naf) = -3

\* compute_level and construct_perturbator_coeffs with their loops run in the
\* order of the source
RECURSIVE compute_level(_, _, _, _)
compute_level(lvl, betas, dlts, prev_level_coeffs) ==
    IF AtRoot(lvl, betas) THEN At(prev_level_coeffs, 0)
    ELSE compute_level(lvl + 1, betas, dlts,
                       ComputeLevelCoeffs(lvl, betas, dlts, prev_level_coeffs, 0))

construct_perturbator_coeffs(betas, dlts, evals) ==
    compute_level(1, betas, dlts, FirstLevelCoeffs(betas, dlts, evals, 0))

\* the rows of the accumulator folded
FoldRows == 0 .. (FoldInstanceSize - 1)

\* s_j of a row: subrelation j accumulated with scaling factor 1 from zero
SubrelationValues(row) ==
    accumulate(ValueAccumulators, RowAt(accumulator.prover_polynomials, row),
               accumulator.relation_parameters, 1)

\* the sum over the subrelations j of alpha^j * s_j, j counted from 0
FullRelationValue(row, alpha) ==
    LET s == SubrelationValues(row)
    IN  SumOver([j \in 1 .. Len(s) |-> Mul(Pow(alpha, j - 1), s[j])], 1, Len(s))

EverySubrelationZero == \A row \in FoldRows : SubrelationValues(row) = ValueAccumulators

\* C13 as stated: for the batching challenge alpha of the fold, the full
\* relation value is zero for every row if and only if every subrelation value
\* is zero at every row.
C13_ZeroIffForEveryAlpha ==
    fold_state \in {"RowsEvaluated", "PerturbatorBuilt", "Folded"} =>
        ((\A row \in FoldRows : At(full_honk_evaluations, row) = 0) <=> EverySubrelationZero)

\* C13: the full relation value of a row is the sum of alpha^j * s_j from weight
\* alpha^0; if every s_j is zero at every row it is zero at every row, and it is
\* zero at every row for every alpha only if every s_j is zero at every row.
C13_ZeroForAllAlphaIff ==
    fold_state \in {"RowsEvaluated", "PerturbatorBuilt", "Folded"} =>
        /\ \A row \in FoldRows :
              At(full_honk_evaluations, row) = FullRelationValue(row, fold_alpha)
        /\ EverySubrelationZero => \A row \in FoldRows : At(full_honk_evaluations, row) = 0
        /\ (\A alpha \in Challenges : \A row \in FoldRows :
               compute_full_honk_relation_row_value(
                   RowAt(accumulator.prover_polynomials, row), alpha,
                   accumulator.relation_parameters) = 0)
              => EverySubrelationZero

C13_Witness ==
    /\ fold_state = "RowsEvaluated"
    /\ FoldInstanceSize = 4
    /\ fold_alpha = 2
    /\ EverySubrelationZero
    /\ \A row \in FoldRows : At(full_honk_evaluations, row) = 0
    /\ At(accumulator.prover_polynomials.z_lookup, 3) > 1

FoldOrder == <<"Initialized", "RowsEvaluated", "PerturbatorBuilt", "Folded">>

\* C14: a fold enters Initialized, RowsEvaluated, PerturbatorBuilt and Folded in
\* this order, each once; no relation is evaluated up to the end of
\* prepare_for_folding, every row of the accumulator is evaluated before any
\* perturbator coefficient is computed, the betas are the accumulator's
\* gate_separation_challenges, and no step runs after Folded.
C14_FoldOrder ==
    /\ fold_history = SubSeq(FoldOrder, 1, Len(fold_history))
    /\ fold_state = fold_history[Len(fold_history)]
    /\ pc \in {"prepare", "fold"} =>
          /\ fold_state = "Initialized"
          /\ fold_rows_done = {}
          /\ full_honk_evaluations = <<>>
    /\ (level_coeffs # <<>> \/ perturbator # <<>>) =>
          /\ fold_state # "Initialized"
          /\ fold_rows_done = FoldRows
          /\ \A row \in FoldRows :
                At(full_honk_evaluations, row) = FullRelationValue(row, fold_alpha)
    /\ pc \in {"first", "enter", "level"} =>
          fold_betas = accumulator.folding_params.gate_separation_challenges
    /\ fold_state \in {"PerturbatorBuilt", "Folded"} =>
          perturbator =
              construct_perturbator_coeffs(accumulator.folding_params.gate_separation_challenges,
                                           deltas, full_honk_evaluations)
    /\ fold_state = "Folded" => ~ENABLED FoldNext

C14_Witness ==
    /\ fold_state = "Folded"
    /\ fold_history = FoldOrder
    /\ FoldInstanceSize = 4
    /\ fold_rows_done = FoldRows
    /\ \E d \in 0 .. 2 : At(perturbator, d) # 0

\* C15: no step of compute_perturbator, get_execution_row of every row
\* included, changes the accumulator's prover polynomials, its relation
\* parameters, its gate_separation_challenges or the caller's deltas.
C15_InstancesNotMutated ==
    [][(pc \in {"fold", "rows", "first", "enter", "level"}) =>
          (/\ accumulator'.prover_polynomials = accumulator.prover_polynomials
           /\ accumulator'.relation_parameters = accumulator.relation_parameters
           /\ accumulator'.folding_params = accumulator.folding_params
           /\ deltas' = deltas)]_vars

C15_Witness ==
    /\ pc = "returned"
    /\ FoldInstanceSize = 4
    /\ fold_rows_done = FoldRows
    /\ \E row \in FoldRows : At(full_honk_evaluations, row) # 0
    /\ Len(perturbator) = 3

====
